---- MODULE Spec2Model ----
(***************************************************************************)
(* S3Pipeline (src/src/S3Pipeline.py): a facade over the boto3 S3 client.  *)
(* Every method makes its SDK calls inside a try block and maps the        *)
(* exceptions its except clauses name to a sentinel.  The model keeps the  *)
(* service as a map from (bucket, key) to bytes, the local file system as  *)
(* a map from path to bytes, and records for the most recent call its      *)
(* arguments, the SDK calls it made, the messages it logged and whether it *)
(* returned or raised.                                                     *)
(***************************************************************************)
EXTENDS Integers, Sequences, FiniteSets, TLC

VARIABLES phase, s3_client, store, localfs, svcBuckets, svcPages, last, uploaded

vars == <<phase, s3_client, store, localfs, svcBuckets, svcPages, last, uploaded>>

(* ---------------- bounds and value sets ---------------- *)

MaxPages == 2
MaxListed == 3
MaxBuckets == 2

Buckets == {"b1", "b2"}
\* the buckets the service holds; a call naming another bucket gets the
\* service error NoSuchBucket
OpenBuckets == {"b1"}
\* file paths and object keys are both plain strings: upload_file uses the
\* path as the key when no object name is given
Paths == {"f1", "f2"}
Keys == Paths
Bytes == {"", "a,b"}
Absent == "<absent>"
None == "<None>"
Prefixes == {"", "f"}

NoClient == "<no client>"
Clients == {"client#1", "client#2"}

\* exception classes, as the except clauses tell them apart
ClientError == "ClientError"
EmptyDataError == "EmptyDataError"
KeyError == "KeyError"
OtherError == "OtherError"
NoExc == "<no exception>"

Faults == {"none", ClientError, OtherError}

SeqsUpTo(S, n) == UNION {[1..m -> S] : m \in 0..n}

(* ---------------- results of a call ---------------- *)

\* one SDK (or decoder) invocation: its name, its arguments, how it ended
Call(api, args, result) == [api |-> api, args |-> args, result |-> result]

Return(value, calls, log) ==
    [outcome |-> "return", value |-> value, exc |-> NoExc,
     calls |-> calls, log |-> log, store |-> store, localfs |-> localfs]

Raise(e, calls, log) ==
    [outcome |-> "raise", value |-> None, exc |-> e,
     calls |-> calls, log |-> log, store |-> store, localfs |-> localfs]

WithStore(r, s) == [r EXCEPT !.store = s]
WithLocal(r, f) == [r EXCEPT !.localfs = f]

(* ---------------- the SDK against the modelled service ---------------- *)

\* boto3.client("s3"): the client, or whatever the credential chain raises
boto3_client(client, fault) ==
    IF fault = "none" THEN [kind |-> "ok", value |-> client]
    ELSE [kind |-> "raise", exc |-> fault]

\* s3_client.upload_file(Filename, Bucket, Key): stores the file's bytes
sdk_upload_file(filename, bucket, key, fault) ==
    IF fault # "none" THEN [kind |-> "raise", exc |-> fault, store |-> store]
    ELSE IF bucket \notin OpenBuckets
         THEN [kind |-> "raise", exc |-> ClientError, store |-> store]
    ELSE [kind |-> "ok", exc |-> NoExc,
          store |-> [store EXCEPT ![<<bucket, key>>] = localfs[filename]]]

\* s3_client.download_file(Bucket, Key, Filename): writes the object's bytes
sdk_download_file(bucket, key, filename, fault) ==
    IF fault # "none" THEN [kind |-> "raise", exc |-> fault, localfs |-> localfs]
    ELSE IF bucket \notin OpenBuckets \/ store[<<bucket, key>>] = Absent
         THEN [kind |-> "raise", exc |-> ClientError, localfs |-> localfs]
    ELSE [kind |-> "ok", exc |-> NoExc,
          localfs |-> [localfs EXCEPT ![filename] = store[<<bucket, key>>]]]

\* s3_client.get_object(Bucket, Key): a response holding the body stream; a
\* missing key is the service error NoSuchKey; has_body = FALSE is a response
\* without the "Body" field
sdk_get_object(bucket, key, fault, has_body) ==
    IF fault # "none" THEN [kind |-> "raise", exc |-> fault]
    ELSE IF bucket \notin OpenBuckets \/ store[<<bucket, key>>] = Absent
         THEN [kind |-> "raise", exc |-> ClientError]
    ELSE IF has_body THEN [kind |-> "ok", response |-> [Body |-> store[<<bucket, key>>]]]
    ELSE [kind |-> "ok", response |-> [ContentLength |-> 0]]

\* response["Body"].read()
body_read(body, fault) ==
    IF fault # "none" THEN [kind |-> "raise", exc |-> fault]
    ELSE [kind |-> "ok", value |-> body]

\* pd.read_csv(io.BytesIO(content), **kwargs): no data raises EmptyDataError
pd_read_csv(content, kwargs, fault) ==
    IF fault # "none" THEN [kind |-> "raise", exc |-> fault]
    ELSE IF content = "" THEN [kind |-> "raise", exc |-> EmptyDataError]
    ELSE [kind |-> "ok",
          value |-> IF kwargs = "usecols=[a]" THEN "DataFrame{a}" ELSE "DataFrame{a,b}"]

\* s3_client.list_buckets(): has_buckets = FALSE is a response without "Buckets"
sdk_list_buckets(fault, has_buckets) ==
    IF fault # "none" THEN [kind |-> "raise", exc |-> fault]
    ELSE IF has_buckets
         THEN [kind |-> "ok",
               response |-> [Buckets |->
                   [i \in 1..Len(svcBuckets) |-> [Name |-> svcBuckets[i]]]]]
    ELSE [kind |-> "ok", response |-> [Owner |-> "me"]]

\* s3_client.get_paginator("list_objects_v2")
sdk_get_paginator(fault) ==
    IF fault # "none" THEN [kind |-> "raise", exc |-> fault]
    ELSE [kind |-> "ok"]

\* one step of the page iterator: page i of the listing, or the error the
\* fetch of page fail_at runs into
next_page(i, fail_at, fail_exc) ==
    IF i = fail_at THEN [kind |-> "raise", exc |-> fail_exc]
    ELSE [kind |-> "ok", page |-> svcPages[i]]

(* ---------------- S3Pipeline ---------------- *)

\* variant of __init__: the except clause logs and does not re-raise
init_mut_swallow(client, fault) ==
    LET c == boto3_client(client, fault)
        calls == <<Call("boto3.client", <<"s3">>, IF c.kind = "ok" THEN c.value ELSE c.exc)>>
    IN IF c.kind = "ok"
       THEN Return(c.value, calls, <<"Successfully initialized S3 client">>)
       ELSE Return(NoClient, calls, <<"Failed to initialize S3 client">>)

\* __init__: try boto3.client; log and re-raise on any exception
init(client, fault) ==
    LET c == boto3_client(client, fault)
        calls == <<Call("boto3.client", <<"s3">>, IF c.kind = "ok" THEN c.value ELSE c.exc)>>
    IN IF c.kind = "ok"
       THEN Return(c.value, calls, <<"Successfully initialized S3 client">>)
       ELSE Raise(c.exc, calls, <<"Failed to initialize S3 client">>)

\* variant of upload_file: a service error is answered by a second attempt
upload_file_mut_retry(file_path, bucket_name, object_name, fault) ==
    LET name == IF object_name = None THEN file_path ELSE object_name
        r == sdk_upload_file(file_path, bucket_name, name, fault)
        c == Call("upload_file", <<file_path, bucket_name, name>>,
                  IF r.kind = "ok" THEN "ok" ELSE r.exc)
    IN IF r.kind = "ok"
       THEN WithStore(Return(TRUE, <<c>>, <<"Successfully uploaded">>), r.store)
       ELSE IF r.exc = ClientError
            THEN Return(FALSE, <<c, c>>, <<"Failed to upload file">>)
       ELSE Raise(r.exc, <<c>>, <<>>)

\* variant of upload_file: the object name given by the caller is ignored
upload_file_mut_key(file_path, bucket_name, object_name, fault) ==
    LET name == file_path
        r == sdk_upload_file(file_path, bucket_name, name, fault)
        calls == <<Call("upload_file", <<file_path, bucket_name, name>>,
                        IF r.kind = "ok" THEN "ok" ELSE r.exc)>>
    IN IF r.kind = "ok"
       THEN WithStore(Return(TRUE, calls, <<"Successfully uploaded">>), r.store)
       ELSE IF r.exc = ClientError
            THEN Return(FALSE, calls, <<"Failed to upload file">>)
       ELSE Raise(r.exc, calls, <<>>)

upload_file(file_path, bucket_name, object_name, fault) ==
    LET name == IF object_name = None THEN file_path ELSE object_name
        r == sdk_upload_file(file_path, bucket_name, name, fault)
        calls == <<Call("upload_file", <<file_path, bucket_name, name>>,
                        IF r.kind = "ok" THEN "ok" ELSE r.exc)>>
    IN IF r.kind = "ok"
       THEN WithStore(Return(TRUE, calls, <<"Successfully uploaded">>), r.store)
       ELSE IF r.exc = ClientError
            THEN Return(FALSE, calls, <<"Failed to upload file">>)
       ELSE Raise(r.exc, calls, <<>>)

\* variant of download_file: key and file name change places in the SDK call
download_file_mut_swap(bucket_name, object_name, file_path, fault) ==
    LET r == sdk_download_file(bucket_name, file_path, object_name, fault)
        calls == <<Call("download_file", <<bucket_name, file_path, object_name>>,
                        IF r.kind = "ok" THEN "ok" ELSE r.exc)>>
    IN IF r.kind = "ok"
       THEN WithLocal(Return(TRUE, calls, <<"Successfully downloaded">>), r.localfs)
       ELSE IF r.exc = ClientError
            THEN Return(FALSE, calls, <<"Failed to download file">>)
       ELSE Raise(r.exc, calls, <<>>)

download_file(bucket_name, object_name, file_path, fault) ==
    LET r == sdk_download_file(bucket_name, object_name, file_path, fault)
        calls == <<Call("download_file", <<bucket_name, object_name, file_path>>,
                        IF r.kind = "ok" THEN "ok" ELSE r.exc)>>
    IN IF r.kind = "ok"
       THEN WithLocal(Return(TRUE, calls, <<"Successfully downloaded">>), r.localfs)
       ELSE IF r.exc = ClientError
            THEN Return(FALSE, calls, <<"Failed to download file">>)
       ELSE Raise(r.exc, calls, <<>>)

\* variant of the except clauses: the catch-all clause comes first
csv_handler_mut_order(exc, calls) ==
    Return(None, calls, <<"Error processing CSV file">>)

\* the except clauses of read_csv_to_dataframe, in their order
csv_handler(exc, calls) ==
    IF exc = ClientError THEN Return(None, calls, <<"Failed to read CSV from S3">>)
    ELSE IF exc = EmptyDataError THEN Return(None, calls, <<"CSV file is empty">>)
    ELSE Return(None, calls, <<"Error processing CSV file">>)

\* variant of read_csv_to_dataframe: only get_object is inside the try block,
\* and a failed fetch goes on to the decoder with no content
read_csv_to_dataframe_mut_decode(bucket_name, object_key, pandas_kwargs, env) ==
    LET g == sdk_get_object(bucket_name, object_key, env.get, env.has_body)
        c1 == <<Call("get_object", <<bucket_name, object_key>>,
                     IF g.kind = "ok" THEN "ok" ELSE g.exc)>>
        content == IF g.kind = "ok" /\ "Body" \in DOMAIN g.response
                   THEN g.response.Body ELSE ""
        d == pd_read_csv(content, pandas_kwargs, env.decode)
        c3 == c1 \o <<Call("read", <<>>, "ok"),
                      Call("read_csv", <<content, pandas_kwargs>>,
                           IF d.kind = "ok" THEN d.value ELSE d.exc)>>
    IN IF d.kind = "raise" THEN csv_handler(d.exc, c3)
       ELSE Return(d.value, c3, <<"Successfully read CSV">>)

read_csv_to_dataframe(bucket_name, object_key, pandas_kwargs, env) ==
    LET g == sdk_get_object(bucket_name, object_key, env.get, env.has_body)
        c1 == <<Call("get_object", <<bucket_name, object_key>>,
                     IF g.kind = "ok" THEN "ok" ELSE g.exc)>>
    IN IF g.kind = "raise" THEN csv_handler(g.exc, c1)
       ELSE IF "Body" \notin DOMAIN g.response THEN csv_handler(KeyError, c1)
       ELSE
       LET b == body_read(g.response.Body, env.read)
           c2 == Append(c1, Call("read", <<>>, IF b.kind = "ok" THEN "ok" ELSE b.exc))
       IN IF b.kind = "raise" THEN csv_handler(b.exc, c2)
          ELSE
          LET d == pd_read_csv(b.value, pandas_kwargs, env.decode)
              c3 == Append(c2, Call("read_csv", <<b.value, pandas_kwargs>>,
                                    IF d.kind = "ok" THEN d.value ELSE d.exc))
          IN IF d.kind = "raise" THEN csv_handler(d.exc, c3)
             ELSE Return(d.value, c3, <<"Successfully read CSV">>)

\* variant of list_buckets: the names come back in reverse order
list_buckets_mut_reverse(fault, has_buckets) ==
    LET r == sdk_list_buckets(fault, has_buckets)
        calls == <<Call("list_buckets", <<>>, IF r.kind = "ok" THEN "ok" ELSE r.exc)>>
    IN IF r.kind = "raise"
       THEN IF r.exc = ClientError
            THEN Return(<<>>, calls, <<"Failed to list buckets">>)
            ELSE Raise(r.exc, calls, <<>>)
       ELSE IF "Buckets" \notin DOMAIN r.response THEN Raise(KeyError, calls, <<>>)
       ELSE LET n == Len(r.response.Buckets)
            IN Return([i \in 1..n |-> r.response.Buckets[n + 1 - i].Name],
                      calls, <<"Successfully retrieved buckets">>)

list_buckets(fault, has_buckets) ==
    LET r == sdk_list_buckets(fault, has_buckets)
        calls == <<Call("list_buckets", <<>>, IF r.kind = "ok" THEN "ok" ELSE r.exc)>>
    IN IF r.kind = "raise"
       THEN IF r.exc = ClientError
            THEN Return(<<>>, calls, <<"Failed to list buckets">>)
            ELSE Raise(r.exc, calls, <<>>)
       ELSE IF "Buckets" \notin DOMAIN r.response THEN Raise(KeyError, calls, <<>>)
       ELSE Return([i \in 1..Len(r.response.Buckets) |-> r.response.Buckets[i].Name],
                   calls, <<"Successfully retrieved buckets">>)

\* [obj["Key"] for obj in page["Contents"]]
page_keys(page) == [j \in 1..Len(page.Contents) |-> page.Contents[j].Key]

\* variant of the loop: objects = [...] in place of objects.extend([...])
RECURSIVE list_objects_loop_mut_assign(_, _, _, _, _)
list_objects_loop_mut_assign(i, objects, calls, fail_at, fail_exc) ==
    IF i > Len(svcPages)
    THEN Return(objects, calls, <<"Successfully listed objects">>)
    ELSE
    LET n == next_page(i, fail_at, fail_exc)
        cs == Append(calls, Call("next_page", <<i>>, IF n.kind = "ok" THEN "ok" ELSE n.exc))
    IN IF n.kind = "raise"
       THEN IF n.exc = ClientError
            THEN Return(<<>>, cs, <<"Failed to list objects">>)
            ELSE Raise(n.exc, cs, <<>>)
       ELSE list_objects_loop_mut_assign(i + 1,
                IF "Contents" \in DOMAIN n.page THEN page_keys(n.page) ELSE objects,
                cs, fail_at, fail_exc)

\* variant of the loop: the except clause returns the keys gathered so far
RECURSIVE list_objects_loop_mut_partial(_, _, _, _, _)
list_objects_loop_mut_partial(i, objects, calls, fail_at, fail_exc) ==
    IF i > Len(svcPages)
    THEN Return(objects, calls, <<"Successfully listed objects">>)
    ELSE
    LET n == next_page(i, fail_at, fail_exc)
        cs == Append(calls, Call("next_page", <<i>>, IF n.kind = "ok" THEN "ok" ELSE n.exc))
    IN IF n.kind = "raise"
       THEN IF n.exc = ClientError
            THEN Return(objects, cs, <<"Failed to list objects">>)
            ELSE Raise(n.exc, cs, <<>>)
       ELSE list_objects_loop_mut_partial(i + 1,
                IF "Contents" \in DOMAIN n.page THEN objects \o page_keys(n.page)
                                                ELSE objects,
                cs, fail_at, fail_exc)

\* the for loop over paginator.paginate(...), from page i on, with the keys
\* gathered so far
RECURSIVE list_objects_loop(_, _, _, _, _)
list_objects_loop(i, objects, calls, fail_at, fail_exc) ==
    IF i > Len(svcPages)
    THEN Return(objects, calls, <<"Successfully listed objects">>)
    ELSE
    LET n == next_page(i, fail_at, fail_exc)
        cs == Append(calls, Call("next_page", <<i>>, IF n.kind = "ok" THEN "ok" ELSE n.exc))
    IN IF n.kind = "raise"
       THEN IF n.exc = ClientError
            THEN Return(<<>>, cs, <<"Failed to list objects">>)
            ELSE Raise(n.exc, cs, <<>>)
       ELSE list_objects_loop(i + 1,
                IF "Contents" \in DOMAIN n.page THEN objects \o page_keys(n.page)
                                                ELSE objects,
                cs, fail_at, fail_exc)

list_objects(bucket_name, prefix, env) ==
    LET p == sdk_get_paginator(env.paginator)
        c1 == <<Call("get_paginator", <<"list_objects_v2">>,
                     IF p.kind = "ok" THEN "ok" ELSE p.exc)>>
    IN IF p.kind = "raise"
       THEN IF p.exc = ClientError
            THEN Return(<<>>, c1, <<"Failed to list objects">>)
            ELSE Raise(p.exc, c1, <<>>)
       ELSE list_objects_loop(1, <<>>,
                Append(c1, Call("paginate", <<bucket_name, prefix>>, "ok")),
                env.fail_at, env.fail_exc)

(* ---------------- state machine ---------------- *)

Stores == [OpenBuckets \X Keys -> Bytes \cup {Absent}]
LocalFiles == [Paths -> Bytes]
NoCall == [op |-> "none", args |-> <<>>, outcome |-> "none", value |-> None,
           exc |-> NoExc, calls |-> <<>>, log |-> <<>>]
NoUpload == [bucket |-> None, key |-> None, bytes |-> Absent]

Record(op, args, r) ==
    [op |-> op, args |-> args, outcome |-> r.outcome, value |-> r.value,
     exc |-> r.exc, calls |-> r.calls, log |-> r.log]

InitFacade ==
    /\ phase = "new"
    /\ s3_client = NoClient
    /\ last = NoCall
    /\ uploaded = NoUpload

InitTransfer ==
    /\ InitFacade
    /\ store \in Stores
    /\ localfs \in LocalFiles
    /\ svcBuckets = <<>>
    /\ svcPages = <<>>

\* S3Pipeline(): the facade exists only if __init__ returns
Construct ==
    /\ phase = "new"
    /\ \E client \in Clients, fault \in Faults :
          LET r == init(client, fault)
          IN /\ last' = Record("__init__", <<>>, r)
             /\ phase' = IF r.outcome = "return" THEN "ready" ELSE "failed"
             /\ s3_client' = IF r.outcome = "return" THEN r.value ELSE NoClient
    /\ uploaded' = NoUpload
    /\ UNCHANGED <<store, localfs, svcBuckets, svcPages>>

UploadFile ==
    /\ phase = "ready"
    /\ \E file_path \in Paths, bucket_name \in Buckets,
          object_name \in Keys \cup {None}, fault \in Faults :
          LET r == upload_file(file_path, bucket_name, object_name, fault)
          IN /\ last' = Record("upload_file", <<file_path, bucket_name, object_name>>, r)
             /\ store' = r.store
             /\ localfs' = r.localfs
             /\ uploaded' =
                  IF r.outcome = "return" /\ r.value = TRUE
                  THEN [bucket |-> bucket_name,
                        key |-> IF object_name = None THEN file_path ELSE object_name,
                        bytes |-> localfs[file_path]]
                  ELSE NoUpload
    /\ UNCHANGED <<phase, s3_client, svcBuckets, svcPages>>

DownloadFile ==
    /\ phase = "ready"
    /\ \E bucket_name \in Buckets, object_name \in Keys, file_path \in Paths,
          fault \in Faults :
          LET r == download_file(bucket_name, object_name, file_path, fault)
          IN /\ last' = Record("download_file", <<bucket_name, object_name, file_path>>, r)
             /\ store' = r.store
             /\ localfs' = r.localfs
    /\ uploaded' = IF last.op = "upload_file" THEN uploaded ELSE NoUpload
    /\ UNCHANGED <<phase, s3_client, svcBuckets, svcPages>>

\* how the three stages of a CSV read can go; a stage is only reached when
\* the one before went through
CsvEnvs ==
    {e \in [get : Faults, has_body : BOOLEAN, read : Faults, decode : {"none", OtherError}] :
        /\ e.get # "none" => e.has_body /\ e.read = "none" /\ e.decode = "none"
        /\ ~e.has_body => e.read = "none" /\ e.decode = "none"
        /\ e.read # "none" => e.decode = "none"}

PandasKwargs == {"", "usecols=[a]"}

\* a page of the listing: with "Contents", a list of objects, or without
ObjectLists == SeqsUpTo({[Key |-> k] : k \in Keys}, MaxListed)
Pages == {[KeyCount |-> 0]} \cup {[Contents |-> c] : c \in ObjectLists}

ContentsLen(page) == IF "Contents" \in DOMAIN page THEN Len(page.Contents) ELSE 0

RECURSIVE TotalKeys(_)
TotalKeys(pages) ==
    IF pages = <<>> THEN 0 ELSE ContentsLen(Head(pages)) + TotalKeys(Tail(pages))

\* the listings the service may hold: at most MaxPages pages, at most
\* MaxListed objects in all
PageSeqs == {ps \in SeqsUpTo(Pages, MaxPages) : TotalKeys(ps) <= MaxListed}
BucketLists == SeqsUpTo(Buckets, MaxBuckets)

\* how a listing can go: get_paginator fails, or the fetch of page fail_at
\* fails (0: none does)
ListEnvs ==
    {e \in [paginator : Faults, fail_at : 0..Len(svcPages), fail_exc : {ClientError, OtherError}] :
        /\ e.paginator # "none" => e.fail_at = 0
        /\ e.fail_at = 0 => e.fail_exc = ClientError}

InitRead ==
    /\ InitFacade
    /\ store \in Stores
    /\ localfs = [p \in Paths |-> ""]
    /\ svcBuckets \in BucketLists
    /\ svcPages = <<>>

InitListing ==
    /\ InitFacade
    /\ store = [x \in OpenBuckets \X Keys |-> Absent]
    /\ localfs = [p \in Paths |-> ""]
    /\ svcBuckets = <<>>
    /\ svcPages \in PageSeqs

ReadCsv ==
    /\ phase = "ready"
    /\ \E bucket_name \in Buckets, object_key \in Keys, pandas_kwargs \in PandasKwargs,
          env \in CsvEnvs :
          LET r == read_csv_to_dataframe(bucket_name, object_key, pandas_kwargs, env)
          IN /\ last' = Record("read_csv_to_dataframe",
                               <<bucket_name, object_key, pandas_kwargs>>, r)
             /\ store' = r.store
             /\ localfs' = r.localfs
    /\ uploaded' = NoUpload
    /\ UNCHANGED <<phase, s3_client, svcBuckets, svcPages>>

ListBuckets ==
    /\ phase = "ready"
    /\ \E fault \in Faults, has_buckets \in BOOLEAN :
          /\ fault # "none" => has_buckets
          /\ LET r == list_buckets(fault, has_buckets)
             IN /\ last' = Record("list_buckets", <<>>, r)
                /\ store' = r.store
                /\ localfs' = r.localfs
    /\ uploaded' = NoUpload
    /\ UNCHANGED <<phase, s3_client, svcBuckets, svcPages>>

ListObjects ==
    /\ phase = "ready"
    /\ \E bucket_name \in Buckets, prefix \in Prefixes, env \in ListEnvs :
          LET r == list_objects(bucket_name, prefix, env)
          IN /\ last' = Record("list_objects", <<bucket_name, prefix>>, r)
             /\ store' = r.store
             /\ localfs' = r.localfs
    /\ uploaded' = NoUpload
    /\ UNCHANGED <<phase, s3_client, svcBuckets, svcPages>>

NextRead == Construct \/ ReadCsv \/ ListBuckets

SpecRead == InitRead /\ [][NextRead]_vars

NextListing == Construct \/ ListObjects

SpecListing == InitListing /\ [][NextListing]_vars

NextTransfer == Construct \/ UploadFile \/ DownloadFile

SpecTransfer == InitTransfer /\ [][NextTransfer]_vars

Init == InitTransfer \/ InitRead \/ InitListing

Next == Construct \/ UploadFile \/ DownloadFile \/ ReadCsv \/ ListBuckets \/ ListObjects

Spec == Init /\ [][Next]_vars

(* ---------------- properties ---------------- *)

PublicOps == {"upload_file", "download_file", "read_csv_to_dataframe",
              "list_buckets", "list_objects"}
Exceptions == {ClientError, EmptyDataError, KeyError, OtherError}

\* the calls of the last operation that went to the api named
CallsTo(api) == {i \in 1..Len(last.calls) : last.calls[i].api = api}

\* C1: every public operation other than construction returns (a success
\* value or its sentinel) whatever way its SDK call fails; it never raises.
C1_NeverPropagates ==
    last.op \in PublicOps => last.outcome = "return"

\* C2: upload_file and download_file invoke their SDK transfer call exactly
\* once, return True when it completes and False when it raises ClientError.
C2_TransferOnce ==
    last.op \in {"upload_file", "download_file"} =>
        /\ Len(last.calls) = 1
        /\ last.calls[1].api = last.op
        /\ last.calls[1].result = "ok" =>
              last.outcome = "return" /\ last.value = TRUE
        /\ last.calls[1].result = ClientError =>
              last.outcome = "return" /\ last.value = FALSE

C2_Witness ==
    /\ last.op = "download_file"
    /\ last.calls[1].result = ClientError
    /\ last.outcome = "return"
    /\ last.value = FALSE

\* the number of keys in the pages before page i
RECURSIVE KeysBefore(_)
KeysBefore(i) == IF i <= 1 THEN 0 ELSE KeysBefore(i - 1) + ContentsLen(svcPages[i - 1])

AllCallsOk == \A i \in 1..Len(last.calls) : last.calls[i].result = "ok"

\* C3: when every page is fetched without error, list_objects returns the
\* keys of the pages' Contents in page order and within-page order, keeping
\* duplicates; a page without Contents adds nothing, and the length of the
\* result is the sum of the Contents lengths.
C3_Flatten ==
    (last.op = "list_objects" /\ AllCallsOk) =>
        /\ last.outcome = "return"
        /\ Cardinality(CallsTo("next_page")) = Len(svcPages)
        /\ Len(last.value) = KeysBefore(Len(svcPages) + 1)
        /\ \A i \in 1..Len(svcPages) : \A j \in 1..ContentsLen(svcPages[i]) :
              last.value[KeysBefore(i) + j] = svcPages[i].Contents[j].Key

C3_Witness ==
    /\ last.op = "list_objects"
    /\ AllCallsOk
    /\ svcPages = <<[Contents |-> <<[Key |-> "f2"], [Key |-> "f1"]>>],
                    [Contents |-> <<[Key |-> "f1"]>>]>>
    /\ last.value = <<"f2", "f1", "f1">>

\* C4: a service error anywhere in the listing (get_paginator, or the fetch
\* of any page, also after pages that were fetched) makes list_objects
\* return the empty list, never the keys gathered so far.
C4_ErrorGivesEmpty ==
    (/\ last.op = "list_objects"
     /\ \E i \in 1..Len(last.calls) : last.calls[i].result = ClientError) =>
        /\ last.outcome = "return"
        /\ last.value = <<>>

C4_Witness ==
    /\ last.op = "list_objects"
    /\ Len(last.calls) = 4
    /\ last.calls[3].result = "ok"
    /\ last.calls[4].result = ClientError
    /\ ContentsLen(svcPages[1]) > 0
    /\ last.value = <<>>

\* C5: when get_object raises a service error, read_csv_to_dataframe returns
\* None after that one service call, with no body read and no decoder call;
\* the decoder is only ever invoked after a fetch and a body read that
\* both succeeded.
C5_NoDecodeAfterServiceError ==
    last.op = "read_csv_to_dataframe" =>
        /\ Cardinality(CallsTo("get_object")) = 1
        /\ last.calls[1].api = "get_object"
        /\ last.calls[1].result = ClientError =>
              /\ last.outcome = "return"
              /\ last.value = None
              /\ Len(last.calls) = 1
        /\ \A i \in CallsTo("read_csv") :
              /\ i = 3
              /\ last.calls[1].result = "ok"
              /\ last.calls[2].api = "read"
              /\ last.calls[2].result = "ok"

C5_Witness ==
    /\ last.op = "read_csv_to_dataframe"
    /\ last.calls[1].result = ClientError
    /\ CallsTo("read_csv") = {}
    /\ last.value = None

\* the exception that ended the try block of the last read_csv_to_dataframe,
\* read off its calls: the last call's, or the KeyError of a missing "Body"
CsvFailure ==
    LET n == Len(last.calls)
    IN IF last.calls[n].result \in Exceptions THEN last.calls[n].result
       ELSE IF n = 1 THEN KeyError
       ELSE NoExc

\* C6: read_csv_to_dataframe returns the decoder's table exactly when fetch,
\* body read and decode all succeed; otherwise it returns None and never
\* raises; a service error, an empty-data error and any other exception
\* each log their own message.
C6_TableOrNone ==
    last.op = "read_csv_to_dataframe" =>
        /\ last.outcome = "return"
        /\ CsvFailure = NoExc =>
              /\ Len(last.calls) = 3
              /\ last.value = last.calls[3].result
              /\ last.value # None
              /\ last.log = <<"Successfully read CSV">>
        /\ CsvFailure # NoExc => last.value = None
        /\ CsvFailure = ClientError => last.log = <<"Failed to read CSV from S3">>
        /\ CsvFailure = EmptyDataError => last.log = <<"CSV file is empty">>
        /\ CsvFailure \in {KeyError, OtherError} =>
              last.log = <<"Error processing CSV file">>
        /\ (Len(last.calls) = 3 /\ last.calls[3].args[1] = "") => last.value = None

C6_Witness ==
    /\ last.op = "read_csv_to_dataframe"
    /\ Len(last.calls) = 3
    /\ last.calls[3].args[1] = ""
    /\ last.calls[3].result = EmptyDataError
    /\ last.value = None
    /\ last.log = <<"CSV file is empty">>

\* C7: list_buckets calls the service's bucket enumeration exactly once;
\* when that succeeds it returns the Name of every bucket of the response,
\* in the response's order and of its length; on a service error it
\* returns the empty list.
C7_BucketNames ==
    last.op = "list_buckets" =>
        /\ Len(last.calls) = 1
        /\ last.calls[1].api = "list_buckets"
        /\ last.calls[1].result = "ok" =>
              \/ /\ last.outcome = "return"
                 /\ Len(last.value) = Len(svcBuckets)
                 /\ \A i \in 1..Len(svcBuckets) : last.value[i] = svcBuckets[i]
              \/ last.outcome = "raise" /\ last.exc = KeyError
        /\ last.calls[1].result = ClientError =>
              last.outcome = "return" /\ last.value = <<>>

C7_Witness ==
    /\ last.op = "list_buckets"
    /\ last.calls[1].result = "ok"
    /\ last.outcome = "return"
    /\ svcBuckets = <<"b2", "b1">>
    /\ last.value = <<"b2", "b1">>

\* the last call was a download that returned True, of the bucket and key
\* that the call before it uploaded with result True
RoundTrip ==
    /\ last.op = "download_file"
    /\ last.outcome = "return"
    /\ last.value = TRUE
    /\ uploaded # NoUpload
    /\ uploaded.bucket = last.args[1]
    /\ uploaded.key = last.args[2]

\* C8: an upload_file that returns True, followed by a download_file of the
\* same bucket and key that returns True, leaves the download's local file
\* holding the bytes of the uploaded file.
C8_RoundTrip ==
    RoundTrip => localfs[last.args[3]] = uploaded.bytes

C8_Witness ==
    /\ RoundTrip
    /\ uploaded.bytes = "a,b"
    /\ localfs[last.args[3]] = "a,b"

\* C9: upload_file passes the SDK the local path as the key when no object
\* name is given, and otherwise exactly the (path, bucket, object name) it
\* was given.
C9_KeyDefault ==
    last.op = "upload_file" =>
        /\ Len(last.calls) >= 1
        /\ last.calls[1].args =
              <<last.args[1], last.args[2],
                IF last.args[3] = None THEN last.args[1] ELSE last.args[3]>>

C9_Witness ==
    /\ last.op = "upload_file"
    /\ last.args[3] = None
    /\ last.calls[1].args = <<"f2", "b1", "f2">>

\* C10: construction tries to create the client exactly once; if that
\* raises, the same error reaches the caller after being logged and no
\* facade exists; if it succeeds, the handle is the client created.
C10_Construction ==
    /\ last.op = "__init__" =>
          /\ Len(last.calls) = 1
          /\ last.calls[1].api = "boto3.client"
          /\ last.calls[1].result \in Exceptions =>
                /\ last.outcome = "raise"
                /\ last.exc = last.calls[1].result
                /\ last.log = <<"Failed to initialize S3 client">>
                /\ phase = "failed"
                /\ s3_client = NoClient
          /\ last.calls[1].result \notin Exceptions =>
                /\ last.outcome = "return"
                /\ phase = "ready"
                /\ s3_client = last.calls[1].result
                /\ s3_client \in Clients
    /\ last.op \in PublicOps => phase = "ready" /\ s3_client \in Clients
    /\ phase # "ready" => s3_client = NoClient

C10_Witness ==
    /\ last.op = "__init__"
    /\ last.outcome = "raise"
    /\ last.exc = OtherError
    /\ phase = "failed"

====
